---- MODULE Spec2Model ----
(***************************************************************************)
(* Model of the ShortcutAI Windows host shim                               *)
(* (apps/windows/src-tauri/src/main.rs): the execution-log history and its *)
(* JSON file, the setup file and the credential vault, the global shortcut *)
(* registration and the clipboard capture threads.                         *)
(*                                                                         *)
(* Option<T> is modelled as a sequence: <<>> is None, <<x>> is Some(x).    *)
(* A String whose characters matter (the shortcut) is a sequence of        *)
(* one-character strings.                                                  *)
(***************************************************************************)
EXTENDS Integers, Sequences, FiniteSets, TLC

VARIABLES
  logs,        \* AppState.logs: Vec<ExecutionLogEntry>
  logsFile,    \* execution-logs.json on disk
  boot,        \* "down" before the setup closure ran, then how the log was loaded
  logRet,      \* what the last log operation returned
  calls,       \* number of append_execution_log calls made so far
  lastOk       \* the list returned by the last append that returned Ok

logVars == <<logs, logsFile, boot, logRet, calls, lastOk>>

VARIABLES
  setupFile,   \* setup.json on disk
  vault,       \* the keyring entry ("ShortcutAI", "api_key"): Option<String>
  setupRet,    \* what the last load_setup / save_setup call returned
  setupPrev,   \* what the call before it returned
  setupCalls   \* number of load_setup / save_setup calls made so far

setupVars == <<setupFile, vault, setupRet, setupPrev, setupCalls>>

VARIABLES
  active_shortcut,  \* AppState.active_shortcut: Option<String>
  osShortcuts,      \* the shortcuts the global shortcut manager holds for this app
  scRet             \* what the last register / unregister call returned

shortcutVars == <<active_shortcut, osShortcuts, scRet>>

VARIABLES
  clipboard,   \* the text on the system clipboard
  clip0,       \* the text the clipboard held before the first hotkey press
  pending,     \* per capture thread: its Ctrl+C is not yet served by the app
  cpc,         \* per capture thread: where it is in capture_selected_text
  previous,    \* per capture thread: the local `previous`
  captured     \* per capture thread: the local `captured`

captureVars == <<clipboard, clip0, pending, cpc, previous, captured>>

VARIABLES
  mutex,       \* holder of the AppState.logs mutex, 0 when free
  apc,         \* per appending thread: where it is in append_execution_log
  updated,     \* per appending thread: the local `updated`
  aret,        \* per appending thread: what its call returned
  order        \* every entry pushed so far, in the order of the pushes

appendVars == <<mutex, apc, updated, aret, order>>

vars == <<logVars, setupVars, shortcutVars, captureVars, appendVars>>

----------------------------------------------------------------------------
(* Bounds *)

MaxAppends == 3      \* append_execution_log calls explored per behaviour
Slack == 2           \* the run starts from files of MAX_LOGS-Slack..MAX_LOGS entries
MaxSetupCalls == 3   \* load_setup / save_setup calls explored per behaviour
MaxPresses == 2      \* hotkey presses, one capture thread each
NumThreads == 2      \* concurrent append_execution_log calls

(* Program constants *)

MAX_LOGS == 500      \* main.rs:402-403

----------------------------------------------------------------------------
(* Values *)

None == <<>>
Some(x) == <<x>>

Min(a, b) == IF a < b THEN a ELSE b

\* The last n elements of s.
LastN(s, n) == SubSeq(s, Len(s) - Min(n, Len(s)) + 1, Len(s))

\* Entries are identified by a number. Entries 1..k are those an earlier run
\* left in the file, the two NewEntries are the ones the front end appends.
NewEntries == {MAX_LOGS + 1, MAX_LOGS + 2}

OldLogs(k) == [i \in 1..k |-> i]

----------------------------------------------------------------------------
(* Files and JSON *)

\* A file: whether it exists, and the JSON text in it. The text of a list is
\* modelled by its elements and by whether the text is complete (a write that
\* fails half-way leaves an unterminated text).
NoFile == [exists |-> FALSE, complete |-> FALSE, elems |-> <<>>]

TruncatedFile == [exists |-> TRUE, complete |-> FALSE, elems |-> <<>>]

\* A serialisation that misses the entry pushed last.
LogsToJsonStale(list) ==
  [exists |-> TRUE, complete |-> TRUE, elems |-> SubSeq(list, 1, Len(list) - 1)]

\* serde_json::to_string_pretty of a Vec<ExecutionLogEntry>
LogsToJson(list) == [exists |-> TRUE, complete |-> TRUE, elems |-> list]

\* The outcomes of fs::write(path, raw): the file is replaced, or the call
\* fails before the file is opened, or it fails after the file was truncated.
WriteOutcomes == {"ok", "fail_untouched", "fail_truncated"}

fs_write(old, new, wr) ==
  CASE wr = "ok" -> new
    [] wr = "fail_untouched" -> old
    [] wr = "fail_truncated" -> TruncatedFile

\* write_json: Ok exactly when fs::write succeeded.
write_json_ok(wr) == wr = "ok"

\* read_json::<Vec<ExecutionLogEntry>>: Ok(None) for a missing file, Err when
\* the file cannot be read or parsed, Ok(Some(list)) otherwise.
read_json_logs(file, readOk) ==
  IF ~file.exists THEN [tag |-> "OkNone", value |-> <<>>]
  ELSE IF ~readOk THEN [tag |-> "Err", value |-> <<>>]
  ELSE IF ~file.complete THEN [tag |-> "Err", value |-> <<>>]
  ELSE [tag |-> "OkSome", value |-> file.elems]

\* load_logs_from_disk: the parsed list, and an empty list in every other case
\* (no data directory, no file, unreadable or unparsable file).
load_logs_from_disk(file, dirOk, readOk) ==
  IF dirOk /\ read_json_logs(file, readOk).tag = "OkSome"
  THEN read_json_logs(file, readOk).value
  ELSE <<>>

----------------------------------------------------------------------------
(* The execution log, one handler per action *)

\* logs.push(entry) without the trim that follows.
PushNoTrim(list, entry) == Append(list, entry)

\* logs.push(entry) with the oldest entries kept and the newest dropped.
PushTruncate(list, entry) == SubSeq(Append(list, entry), 1, Min(MAX_LOGS, Len(list) + 1))

\* logs.push(entry); if logs.len() > 500 { logs.drain(0..logs.len() - 500) }
PushTrim(list, entry) ==
  LET pushed == Append(list, entry)
  IN IF Len(pushed) > MAX_LOGS
     THEN SubSeq(pushed, Len(pushed) - MAX_LOGS + 1, Len(pushed))
     ELSE pushed

\* The setup closure of main: the process starts (or restarts) and loads the
\* log from disk.
Startup(dirOk, readOk) ==
  /\ logs' = load_logs_from_disk(logsFile, dirOk, readOk)
  /\ boot' = IF dirOk /\ read_json_logs(logsFile, readOk).tag = "OkSome"
             THEN "loaded" ELSE "empty"
  /\ logRet' = [op |-> "startup", arg |-> 0, status |-> "Ok", value |-> <<>>]
  /\ UNCHANGED <<logsFile, calls, lastOk>>

\* load_execution_logs: a clone of the in-memory list.
load_execution_logs ==
  /\ boot # "down"
  /\ logRet' = [op |-> "load", arg |-> 0, status |-> "Ok", value |-> logs]
  /\ UNCHANGED <<logs, logsFile, boot, calls, lastOk>>

\* append_execution_log(entry). dirOk: logs_file_path succeeds; wr: the
\* outcome of fs::write.
append_execution_log(entry, dirOk, wr) ==
  /\ boot # "down"
  /\ calls < MaxAppends
  /\ calls' = calls + 1
  /\ boot' = "running"
  /\ LET pushed == PushTrim(logs, entry)
     IN /\ logs' = pushed
        /\ IF ~dirOk
           THEN /\ logsFile' = logsFile
                /\ logRet' = [op |-> "append", arg |-> entry, status |-> "Err", value |-> <<>>]
                /\ lastOk' = lastOk
           ELSE /\ logsFile' = fs_write(logsFile, LogsToJson(pushed), wr)
                /\ IF write_json_ok(wr)
                   THEN /\ logRet' = [op |-> "append", arg |-> entry, status |-> "Ok", value |-> pushed]
                        /\ lastOk' = pushed
                   ELSE /\ logRet' = [op |-> "append", arg |-> entry, status |-> "Err", value |-> <<>>]
                        /\ lastOk' = lastOk

\* The disk before the process starts: no file, or a file an earlier run of
\* this program wrote (the list its last successful append returned).
InitLogLens == {1} \cup ((MAX_LOGS - Slack)..MAX_LOGS)

InitLogs ==
  /\ logs = <<>>
  /\ boot = "down"
  /\ calls = 0
  /\ logRet = [op |-> "none", arg |-> 0, status |-> "Ok", value |-> <<>>]
  /\ \/ logsFile = NoFile /\ lastOk = <<>>
     \/ \E k \in InitLogLens :
          logsFile = LogsToJson(OldLogs(k)) /\ lastOk = OldLogs(k)


----------------------------------------------------------------------------
(* setup.json and the credential vault *)

\* The apiKey member of the JSON object in setup.json: absent, null or a string.
JsonAbsent == [kind |-> "absent", s |-> ""]
JsonNull == [kind |-> "null", s |-> ""]
JsonString(str) == [kind |-> "string", s |-> str]

\* Deserialize Option<String>: a missing member and null both give None.
ParseOptString(member) == IF member.kind = "string" THEN Some(member.s) ELSE None

\* Serialize Option<String> under skip_serializing_if = "Option::is_none".
SerOptStringSkipNone(opt) == IF opt = None THEN JsonAbsent ELSE JsonString(opt[1])

NoSetupFile ==
  [exists |-> FALSE, complete |-> FALSE, provider |-> "", actions |-> <<>>,
   defaultActionId |-> None, setupCompletedAt |-> "", apiKey |-> JsonAbsent]

TruncatedSetupFile ==
  [exists |-> TRUE, complete |-> FALSE, provider |-> "", actions |-> <<>>,
   defaultActionId |-> None, setupCompletedAt |-> "", apiKey |-> JsonAbsent]

\* serde_json::to_string_pretty of a SetupFile
SetupToJson(sf) ==
  [exists |-> TRUE, complete |-> TRUE, provider |-> sf.provider,
   actions |-> sf.actions, defaultActionId |-> sf.default_action_id,
   setupCompletedAt |-> sf.setup_completed_at,
   apiKey |-> SerOptStringSkipNone(sf.api_key)]

\* serde_json::from_str::<SetupFile> of a complete text
SetupFromJson(file) ==
  [provider |-> file.provider, actions |-> file.actions,
   default_action_id |-> file.defaultActionId,
   setup_completed_at |-> file.setupCompletedAt,
   api_key |-> ParseOptString(file.apiKey)]

\* read_json::<SetupFile>
read_json_setup(file, readOk) ==
  IF ~file.exists THEN "OkNone"
  ELSE IF ~readOk \/ ~file.complete THEN "Err"
  ELSE "OkSome"

\* The SetupFile that keeps the payload's key (a file with the key in it).
SetupFileWithKey(setup) ==
  [provider |-> setup.provider, actions |-> setup.actions,
   default_action_id |-> setup.default_action_id,
   setup_completed_at |-> setup.setup_completed_at,
   api_key |-> Some(setup.api_key)]

\* save_setup: the SetupFile built from the payload, api_key: None.
SetupFileOf(setup) ==
  [provider |-> setup.provider, actions |-> setup.actions,
   default_action_id |-> setup.default_action_id,
   setup_completed_at |-> setup.setup_completed_at,
   api_key |-> None]

\* A migration that leaves the legacy key in the rewritten file.
MigratedKeepsKey(sf) == sf

\* load_setup: the migrated SetupFile, the legacy key removed.
Migrated(sf) ==
  [provider |-> sf.provider, actions |-> sf.actions,
   default_action_id |-> sf.default_action_id,
   setup_completed_at |-> sf.setup_completed_at,
   api_key |-> None]

\* load_setup: the payload returned, the key taken from the vault.
PayloadOf(sf, key) ==
  [provider |-> sf.provider, api_key |-> key, actions |-> sf.actions,
   default_action_id |-> sf.default_action_id,
   setup_completed_at |-> sf.setup_completed_at]

\* load_api_key_secure()?.unwrap_or_default()
KeyOrDefault(v) == IF v = None THEN "" ELSE v[1]

\* sf carries a non-empty legacy key (if let Some(k) = .. { if !k.is_empty() ..).
NeedsMigration(sf) == sf.api_key # None /\ sf.api_key[1] # ""

SetupErr(op, arg) ==
  [op |-> op, arg |-> arg, status |-> "Err", migrated |-> FALSE, value |-> None]

SetupOk(op, arg, migrated, value) ==
  [op |-> op, arg |-> arg, status |-> "Ok", migrated |-> migrated, value |-> value]

SetupCall ==
  /\ setupCalls < MaxSetupCalls
  /\ setupCalls' = setupCalls + 1
  /\ setupPrev' = setupRet

\* load_setup. dirOk: setup_file_path succeeds; readOk: fs::read_to_string
\* succeeds; setOk: Entry::set_password succeeds; wr: the outcome of fs::write;
\* getOk: Entry::get_password returns a password or NoEntry.
load_setup(dirOk, readOk, setOk, wr, getOk) ==
  /\ SetupCall
  /\ IF ~dirOk \/ read_json_setup(setupFile, readOk) = "Err"
     THEN /\ setupRet' = SetupErr("load", None)
          /\ UNCHANGED <<setupFile, vault>>
     ELSE IF read_json_setup(setupFile, readOk) = "OkNone"
     THEN /\ setupRet' = SetupOk("load", None, FALSE, None)
          /\ UNCHANGED <<setupFile, vault>>
     ELSE
       LET sf == SetupFromJson(setupFile)
       IN IF NeedsMigration(sf)
          THEN IF ~setOk
               THEN /\ setupRet' = SetupErr("load", None)
                    /\ UNCHANGED <<setupFile, vault>>
               ELSE /\ vault' = Some(sf.api_key[1])
                    /\ setupFile' = fs_write(setupFile, SetupToJson(Migrated(sf)), wr)
                    /\ IF ~write_json_ok(wr) \/ ~getOk
                       THEN setupRet' = SetupErr("load", None)
                       ELSE setupRet' =
                              SetupOk("load", None, TRUE,
                                      Some(PayloadOf(sf, KeyOrDefault(vault'))))
          ELSE /\ UNCHANGED <<setupFile, vault>>
               /\ IF ~getOk
                  THEN setupRet' = SetupErr("load", None)
                  ELSE setupRet' =
                         SetupOk("load", None, FALSE,
                                 Some(PayloadOf(sf, KeyOrDefault(vault))))

\* save_setup(setup)
save_setup(setup, setOk, dirOk, wr) ==
  /\ SetupCall
  /\ IF ~setOk
     THEN /\ setupRet' = SetupErr("save", Some(setup))
          /\ UNCHANGED <<setupFile, vault>>
     ELSE /\ vault' = Some(setup.api_key)
          /\ IF ~dirOk
             THEN /\ setupRet' = SetupErr("save", Some(setup))
                  /\ UNCHANGED setupFile
             ELSE /\ setupFile' = fs_write(setupFile, SetupToJson(SetupFileOf(setup)), wr)
                  /\ setupRet' = IF write_json_ok(wr)
                                 THEN SetupOk("save", Some(setup), FALSE, None)
                                 ELSE SetupErr("save", Some(setup))

Providers == {"openai"}
ApiKeys == {"", "k1", "k2"}
ActionLists == {<<"a1">>}
ActionIds == {None, Some("a1")}
Timestamps == {"t1"}

Payloads ==
  [provider : Providers, api_key : ApiKeys, actions : ActionLists,
   default_action_id : ActionIds, setup_completed_at : Timestamps]

\* The files an installation can hold when the process starts: none, one this
\* program wrote, or a legacy one with an apiKey member.
LegacyKeys == {JsonAbsent, JsonNull, JsonString(""), JsonString("k1")}

InitSetupFiles ==
  {NoSetupFile} \cup
  {[SetupToJson(SetupFileOf(p)) EXCEPT !.apiKey = k] :
     p \in {q \in Payloads : q.api_key = ""}, k \in LegacyKeys}

InitSetup ==
  /\ setupFile \in InitSetupFiles
  /\ vault \in {None, Some("k2")}
  /\ setupRet = SetupOk("none", None, FALSE, None)
  /\ setupPrev = SetupOk("none", None, FALSE, None)
  /\ setupCalls = 0

----------------------------------------------------------------------------
(* The global shortcut *)

IsWhitespace(c) == c = " "

RECURSIVE TrimStart(_)
TrimStart(str) ==
  IF str # <<>> /\ IsWhitespace(Head(str)) THEN TrimStart(Tail(str)) ELSE str

RECURSIVE TrimEnd(_)
TrimEnd(str) ==
  IF str # <<>> /\ IsWhitespace(str[Len(str)])
  THEN TrimEnd(SubSeq(str, 1, Len(str) - 1))
  ELSE str

\* str::trim
Trim(str) == TrimEnd(TrimStart(str))

\* GlobalShortcutManager::register: fails when the OS refuses, and the OS
\* refuses a shortcut that is already registered.
os_register_ok(held, s, osOk) == osOk /\ s \notin held

os_register(held, s, osOk) == IF os_register_ok(held, s, osOk) THEN held \cup {s} ELSE held

\* GlobalShortcutManager::unregister: a failed call leaves the registration.
os_unregister(held, s, osOk) == IF osOk THEN held \ {s} ELSE held

\* register_global_shortcut(shortcut). unregOk, regOk: whether the OS carries
\* out the unregister and the register call.
register_global_shortcut(shortcut, unregOk, regOk) ==
  LET normalized == Trim(shortcut)
  IN IF normalized = <<>>
     THEN /\ scRet' = [op |-> "register", arg |-> shortcut, status |-> "Err"]
          /\ UNCHANGED <<active_shortcut, osShortcuts>>
     ELSE IF active_shortcut = Some(normalized)
     THEN /\ scRet' = [op |-> "register", arg |-> shortcut, status |-> "Ok"]
          /\ UNCHANGED <<active_shortcut, osShortcuts>>
     ELSE
       LET afterUnregister ==
             IF active_shortcut # None
             THEN os_unregister(osShortcuts, active_shortcut[1], unregOk)
             ELSE osShortcuts
       IN /\ osShortcuts' = os_register(afterUnregister, normalized, regOk)
          /\ IF os_register_ok(afterUnregister, normalized, regOk)
             THEN /\ active_shortcut' = Some(normalized)
                  /\ scRet' = [op |-> "register", arg |-> shortcut, status |-> "Ok"]
             ELSE /\ active_shortcut' = active_shortcut
                  /\ scRet' = [op |-> "register", arg |-> shortcut, status |-> "Err"]

\* unregister_global_shortcut
unregister_global_shortcut(unregOk) ==
  IF active_shortcut = None
  THEN /\ scRet' = [op |-> "unregister", arg |-> <<>>, status |-> "Ok"]
       /\ UNCHANGED <<active_shortcut, osShortcuts>>
  ELSE /\ osShortcuts' = os_unregister(osShortcuts, active_shortcut[1], unregOk)
       /\ IF unregOk
          THEN /\ active_shortcut' = None
               /\ scRet' = [op |-> "unregister", arg |-> <<>>, status |-> "Ok"]
          ELSE /\ active_shortcut' = active_shortcut
               /\ scRet' = [op |-> "unregister", arg |-> <<>>, status |-> "Err"]

\* The shortcut strings the front end passes.
ShortcutInputs ==
  {<<>>, <<" ">>, <<"A">>, <<" ", "A", " ">>, <<"B">>, <<"B", " ">>, <<"C">>}

\* AppState after the setup closure: active_shortcut: Mutex::new(None).
InitShortcut ==
  /\ active_shortcut = None
  /\ osShortcuts = {}
  /\ scRet = [op |-> "none", arg |-> <<>>, status |-> "Ok"]

----------------------------------------------------------------------------
(* The hotkey callback and capture_selected_text, one action per step of a
   capture thread. The clipboard holds text and its get_text / set_text calls
   succeed; the foreground application serves a Ctrl+C within the 150 ms the
   thread sleeps. *)

CaptureThreads == 1..MaxPresses

Selection == "selected"

\* The hotkey callback: thread::spawn of a capture thread. The OS calls it
\* while a shortcut of the application is registered.
HotkeyPress(t) ==
  /\ osShortcuts # {}
  /\ cpc[t] = "idle"
  /\ \A u \in CaptureThreads : u < t => cpc[u] # "idle"
  /\ cpc' = [cpc EXCEPT ![t] = "new"]
  /\ UNCHANGED <<clipboard, clip0, pending, previous, captured>>

\* Clipboard::new(): Err returns String::new() at once.
CaptureNew(t, newOk) ==
  /\ cpc[t] = "new"
  /\ cpc' = [cpc EXCEPT ![t] = IF newOk THEN "save" ELSE "emit"]
  /\ UNCHANGED <<clipboard, clip0, pending, previous, captured>>

\* let previous = board.get_text().unwrap_or_default();
CaptureSave(t) ==
  /\ cpc[t] = "save"
  /\ previous' = [previous EXCEPT ![t] = clipboard]
  /\ cpc' = [cpc EXCEPT ![t] = "clear"]
  /\ UNCHANGED <<clipboard, clip0, pending, captured>>

\* let _ = board.set_text("");
CaptureClear(t) ==
  /\ cpc[t] = "clear"
  /\ clipboard' = ""
  /\ cpc' = [cpc EXCEPT ![t] = "ctrlc"]
  /\ UNCHANGED <<clip0, pending, previous, captured>>

\* enigo: Ctrl down, c, Ctrl up. hasSelection: the foreground application has
\* text selected and will copy it.
CaptureCtrlC(t, hasSelection) ==
  /\ cpc[t] = "ctrlc"
  /\ pending' = [pending EXCEPT ![t] = hasSelection]
  /\ cpc' = [cpc EXCEPT ![t] = "sleep"]
  /\ UNCHANGED <<clipboard, clip0, previous, captured>>

\* The foreground application serves the Ctrl+C of thread t.
AppCopies(t) ==
  /\ pending[t]
  /\ clipboard' = Selection
  /\ pending' = [pending EXCEPT ![t] = FALSE]
  /\ UNCHANGED <<clip0, cpc, previous, captured>>

\* thread::sleep(150 ms); let captured = board.get_text().unwrap_or_default();
CaptureRead(t) ==
  /\ cpc[t] = "sleep"
  /\ ~pending[t]
  /\ captured' = [captured EXCEPT ![t] = clipboard]
  /\ cpc' = [cpc EXCEPT ![t] = "restore"]
  /\ UNCHANGED <<clipboard, clip0, pending, previous>>

\* let _ = board.set_text(&previous);
Restored(t) == previous[t]

CaptureRestore(t) ==
  /\ cpc[t] = "restore"
  /\ clipboard' = Restored(t)
  /\ cpc' = [cpc EXCEPT ![t] = "emit"]
  /\ UNCHANGED <<clip0, pending, previous, captured>>

\* emit_all("text-captured", &text) and the window calls: the thread ends.
CaptureEmit(t) ==
  /\ cpc[t] = "emit"
  /\ cpc' = [cpc EXCEPT ![t] = "done"]
  /\ UNCHANGED <<clipboard, clip0, pending, previous, captured>>

ClipboardTexts == {"copied earlier", ""}

InitCapture ==
  /\ clipboard \in ClipboardTexts
  /\ clip0 = clipboard
  /\ pending = [t \in CaptureThreads |-> FALSE]
  /\ cpc = [t \in CaptureThreads |-> "idle"]
  /\ previous = [t \in CaptureThreads |-> ""]
  /\ captured = [t \in CaptureThreads |-> ""]

\* The state after register_global_shortcut("A") returned Ok.
InitRegistered ==
  /\ active_shortcut = Some(<<"A">>)
  /\ osShortcuts = {<<"A">>}
  /\ scRet = [op |-> "register", arg |-> <<"A">>, status |-> "Ok"]

----------------------------------------------------------------------------
(* append_execution_log called from several threads, one action per step *)

AppendThreads == 1..NumThreads

\* The entry thread t appends.
EntryOf(t) == MAX_LOGS + t

\* let mut logs = state.logs.lock()
AppendLock(t) ==
  /\ apc[t] = "call"
  /\ mutex = 0
  /\ mutex' = t
  /\ apc' = [apc EXCEPT ![t] = "push"]
  /\ UNCHANGED <<logs, logsFile, updated, aret, order>>

\* logs.push(entry) and the trim
AppendPush(t) ==
  /\ apc[t] = "push"
  /\ logs' = PushTrim(logs, EntryOf(t))
  /\ order' = Append(order, EntryOf(t))
  /\ apc' = [apc EXCEPT ![t] = "clone"]
  /\ UNCHANGED <<logsFile, mutex, updated, aret>>

\* The guard is dropped once the list is cloned.
HolderDroppedAfterClone(t) == 0

\* The MutexGuard `logs` lives until append_execution_log returns: the thread
\* still holds the mutex after the clone.
HolderAfterClone(t) == t

\* let updated = logs.clone();
AppendClone(t) ==
  /\ apc[t] = "clone"
  /\ updated' = [updated EXCEPT ![t] = logs]
  /\ mutex' = HolderAfterClone(t)
  /\ apc' = [apc EXCEPT ![t] = "path"]
  /\ UNCHANGED <<logs, logsFile, aret, order>>

\* The guard is dropped when the function returns.
Released(t) == IF mutex = t THEN 0 ELSE mutex

\* let path = logs_file_path(&handle)?;
AppendPath(t, dirOk) ==
  /\ apc[t] = "path"
  /\ IF dirOk
     THEN /\ apc' = [apc EXCEPT ![t] = "write"]
          /\ UNCHANGED <<mutex, aret>>
     ELSE /\ apc' = [apc EXCEPT ![t] = "done"]
          /\ aret' = [aret EXCEPT ![t] = "Err"]
          /\ mutex' = Released(t)
  /\ UNCHANGED <<logs, logsFile, updated, order>>

\* write_json(&path, &updated)?; Ok(updated)
AppendWrite(t, wr) ==
  /\ apc[t] = "write"
  /\ logsFile' = fs_write(logsFile, LogsToJson(updated[t]), wr)
  /\ aret' = [aret EXCEPT ![t] = IF write_json_ok(wr) THEN "Ok" ELSE "Err"]
  /\ apc' = [apc EXCEPT ![t] = "done"]
  /\ mutex' = Released(t)
  /\ UNCHANGED <<logs, updated, order>>

\* The process is up: the setup closure has loaded the log an earlier run left.
InitAppend ==
  /\ \/ logsFile = NoFile
     \/ \E k \in InitLogLens : logsFile = LogsToJson(OldLogs(k))
  /\ logs = load_logs_from_disk(logsFile, TRUE, TRUE)
  /\ lastOk = logs
  /\ boot = IF logsFile.exists THEN "loaded" ELSE "empty"
  /\ calls = 0
  /\ logRet = [op |-> "startup", arg |-> 0, status |-> "Ok", value |-> <<>>]
  /\ mutex = 0
  /\ apc = [t \in AppendThreads |-> "call"]
  /\ updated = [t \in AppendThreads |-> <<>>]
  /\ aret = [t \in AppendThreads |-> "none"]
  /\ order = logs

IdleCapture ==
  /\ clipboard = ""
  /\ clip0 = ""
  /\ pending = [t \in CaptureThreads |-> FALSE]
  /\ cpc = [t \in CaptureThreads |-> "idle"]
  /\ previous = [t \in CaptureThreads |-> ""]
  /\ captured = [t \in CaptureThreads |-> ""]

IdleAppend ==
  /\ mutex = 0
  /\ apc = [t \in AppendThreads |-> "call"]
  /\ updated = [t \in AppendThreads |-> <<>>]
  /\ aret = [t \in AppendThreads |-> "none"]
  /\ order = <<>>

----------------------------------------------------------------------------
(* Specifications: each one runs one part of the program, the others idle *)

IdleLogs ==
  /\ logs = <<>>
  /\ logsFile = NoFile
  /\ boot = "down"
  /\ calls = 0
  /\ logRet = [op |-> "none", arg |-> 0, status |-> "Ok", value |-> <<>>]
  /\ lastOk = <<>>

IdleSetup ==
  /\ setupFile = NoSetupFile
  /\ vault = None
  /\ setupRet = SetupOk("none", None, FALSE, None)
  /\ setupPrev = SetupOk("none", None, FALSE, None)
  /\ setupCalls = 0

\* The log handlers, called one at a time.
LogsIdleRest == UNCHANGED <<setupVars, shortcutVars, captureVars, appendVars>>

StartupStep ==
  /\ \E dirOk \in BOOLEAN, readOk \in BOOLEAN : Startup(dirOk, readOk)
  /\ LogsIdleRest

LoadLogsStep == load_execution_logs /\ LogsIdleRest

AppendStep ==
  /\ \E entry \in NewEntries, dirOk \in BOOLEAN, wr \in WriteOutcomes :
       append_execution_log(entry, dirOk, wr)
  /\ LogsIdleRest

NextLogs == StartupStep \/ LoadLogsStep \/ AppendStep

StartLogs == InitLogs /\ IdleSetup /\ InitShortcut /\ IdleCapture /\ IdleAppend

SpecLogs == StartLogs /\ [][NextLogs]_vars

\* The setup handlers.
SetupIdleRest == UNCHANGED <<logVars, shortcutVars, captureVars, appendVars>>

LoadSetupStep ==
  /\ \E dirOk \in BOOLEAN, readOk \in BOOLEAN, setOk \in BOOLEAN,
        wr \in WriteOutcomes, getOk \in BOOLEAN :
       load_setup(dirOk, readOk, setOk, wr, getOk)
  /\ SetupIdleRest

SaveSetupStep ==
  /\ \E setup \in Payloads, setOk \in BOOLEAN, dirOk \in BOOLEAN, wr \in WriteOutcomes :
       save_setup(setup, setOk, dirOk, wr)
  /\ SetupIdleRest

NextSetup == LoadSetupStep \/ SaveSetupStep

StartSetup == InitSetup /\ IdleLogs /\ InitShortcut /\ IdleCapture /\ IdleAppend

SpecSetup == StartSetup /\ [][NextSetup]_vars

\* The shortcut handlers.
ShortcutIdleRest == UNCHANGED <<logVars, setupVars, captureVars, appendVars>>

RegisterStep ==
  /\ \E shortcut \in ShortcutInputs, unregOk \in BOOLEAN, regOk \in BOOLEAN :
       register_global_shortcut(shortcut, unregOk, regOk)
  /\ ShortcutIdleRest

UnregisterStep ==
  /\ \E unregOk \in BOOLEAN : unregister_global_shortcut(unregOk)
  /\ ShortcutIdleRest

NextShortcut == RegisterStep \/ UnregisterStep

StartShortcut == InitShortcut /\ IdleLogs /\ IdleSetup /\ IdleCapture /\ IdleAppend

SpecShortcut == StartShortcut /\ [][NextShortcut]_vars

\* Hotkey presses and the capture threads they spawn.
CaptureIdleRest == UNCHANGED <<logVars, setupVars, shortcutVars, appendVars>>

HotkeyPressStep == (\E t \in CaptureThreads : HotkeyPress(t)) /\ CaptureIdleRest

CaptureNewStep ==
  (\E t \in CaptureThreads, newOk \in BOOLEAN : CaptureNew(t, newOk)) /\ CaptureIdleRest

CaptureSaveStep == (\E t \in CaptureThreads : CaptureSave(t)) /\ CaptureIdleRest

CaptureClearStep == (\E t \in CaptureThreads : CaptureClear(t)) /\ CaptureIdleRest

CaptureCtrlCStep ==
  (\E t \in CaptureThreads, sel \in BOOLEAN : CaptureCtrlC(t, sel)) /\ CaptureIdleRest

AppCopiesStep == (\E t \in CaptureThreads : AppCopies(t)) /\ CaptureIdleRest

CaptureReadStep == (\E t \in CaptureThreads : CaptureRead(t)) /\ CaptureIdleRest

CaptureRestoreStep == (\E t \in CaptureThreads : CaptureRestore(t)) /\ CaptureIdleRest

CaptureEmitStep == (\E t \in CaptureThreads : CaptureEmit(t)) /\ CaptureIdleRest

NextCapture ==
  \/ HotkeyPressStep \/ CaptureNewStep \/ CaptureSaveStep \/ CaptureClearStep
  \/ CaptureCtrlCStep \/ AppCopiesStep \/ CaptureReadStep \/ CaptureRestoreStep
  \/ CaptureEmitStep

StartCapture == InitCapture /\ InitRegistered /\ IdleLogs /\ IdleSetup /\ IdleAppend

SpecCapture == StartCapture /\ [][NextCapture]_vars

\* Concurrent append_execution_log calls. The bookkeeping of the one-at-a-time
\* handlers (boot, logRet, calls, lastOk) is not kept here: each thread has its
\* own apc, updated and aret.
AppendIdleRest ==
  UNCHANGED <<boot, logRet, calls, lastOk, setupVars, shortcutVars, captureVars>>

AppendLockStep == (\E t \in AppendThreads : AppendLock(t)) /\ AppendIdleRest

AppendPushStep == (\E t \in AppendThreads : AppendPush(t)) /\ AppendIdleRest

AppendCloneStep == (\E t \in AppendThreads : AppendClone(t)) /\ AppendIdleRest

AppendPathStep ==
  (\E t \in AppendThreads, dirOk \in BOOLEAN : AppendPath(t, dirOk)) /\ AppendIdleRest

AppendWriteStep ==
  (\E t \in AppendThreads, wr \in WriteOutcomes : AppendWrite(t, wr)) /\ AppendIdleRest

NextAppend ==
  AppendLockStep \/ AppendPushStep \/ AppendCloneStep \/ AppendPathStep \/ AppendWriteStep

StartAppend == InitAppend /\ IdleSetup /\ InitShortcut /\ IdleCapture

SpecAppend == StartAppend /\ [][NextAppend]_vars

----------------------------------------------------------------------------
(* Claims about the execution log (SpecLogs) *)

\* The step is an append_execution_log call (calls counts them).
IsAppend == calls' = calls + 1

\* C1: the in-memory log, the list handed back to the caller and the list in
\* execution-logs.json never hold more than 500 entries.
C1_LogCapped ==
  /\ Len(logs) <= MAX_LOGS
  /\ Len(logRet.value) <= MAX_LOGS
  /\ Len(logsFile.elems) <= MAX_LOGS

\* An append onto a full log has been trimmed, returned and written.
C1_Witness ==
  /\ logRet.op = "append" /\ logRet.status = "Ok"
  /\ Len(logs) = MAX_LOGS /\ Len(logRet.value) = MAX_LOGS
  /\ Len(logsFile.elems) = MAX_LOGS
  /\ lastOk[1] = 1 + MaxAppends

\* C2: an append of e to the list L leaves the last min(500, len(L)+1)
\* elements of L followed by e: e is last, the survivors keep their order,
\* and nothing is dropped while the list fits in 500 entries.
C2_RingBuffer ==
  [][IsAppend =>
       /\ logs' = LastN(logs \o <<logRet'.arg>>, Min(MAX_LOGS, Len(logs) + 1))
       /\ logs'[Len(logs')] = logRet'.arg
       /\ (Len(logs) < MAX_LOGS => logs' = logs \o <<logRet'.arg>>)
       /\ (Len(logs) = MAX_LOGS => logs' = Tail(logs) \o <<logRet'.arg>>)]_vars

\* A successful append has evicted the oldest entry of a full log.
C2_Witness ==
  /\ logRet.op = "append" /\ logRet.status = "Ok"
  /\ Len(logs) = MAX_LOGS
  /\ logs[1] = 2
  /\ logs[MAX_LOGS] = logRet.arg

\* C5 as stated: after an append that returned Ok the file, the in-memory
\* list and the returned list are equal, and after a restart
\* load_execution_logs returns the list the last successful append returned.
C5_Original ==
  /\ (logRet.op = "append" /\ logRet.status = "Ok") =>
       (logsFile = LogsToJson(logs) /\ logRet.value = logs)
  /\ (logRet.op = "load" /\ boot \in {"loaded", "empty"}) =>
       logRet.value = lastOk

\* C5 amended: after an append that returned Ok the file, the in-memory list
\* and the returned list are equal; after a restart that read and parsed
\* execution-logs.json, load_execution_logs returns the list the last
\* successful append returned, and after a restart that could not (no data
\* directory, unreadable file, file truncated by a later failed write) it
\* returns the empty list.
C5_PersistedFaithfully ==
  /\ (logRet.op = "append" /\ logRet.status = "Ok") =>
       (logsFile = LogsToJson(logs) /\ logRet.value = logs)
  /\ (logRet.op = "load" /\ boot = "loaded") => logRet.value = lastOk
  /\ (logRet.op = "load" /\ boot = "empty") => logRet.value = <<>>
  /\ (logsFile.exists /\ logsFile.complete) => logsFile.elems = lastOk

\* After a successful append and a restart, load_execution_logs has returned
\* the appended list.
C5_Witness ==
  /\ logRet.op = "load" /\ boot = "loaded"
  /\ calls > 0
  /\ logRet.value = lastOk
  /\ logRet.value[Len(logRet.value)] \in NewEntries

\* C10: an append that returns Err leaves the in-memory log unchanged.
C10_ErrLeavesLogUnchanged ==
  [][(IsAppend /\ logRet'.status = "Err") => logs' = logs]_vars

----------------------------------------------------------------------------
(* Claims about setup.json and the vault (SpecSetup) *)

\* setup.json holds a non-empty API key.
HasKey(file) == file.exists /\ file.apiKey.kind = "string" /\ file.apiKey.s # ""

\* The step is a load_setup call.
IsLoadSetup == setupCalls' = setupCalls + 1 /\ setupRet'.op = "load"

\* C3: after a save_setup or load_setup that returned Ok, setup.json holds no
\* non-empty API key; the key saved is the vault's entry, and the key a load
\* returns is the vault's.
C3_KeyNotInFile ==
  (setupRet.op \in {"save", "load"} /\ setupRet.status = "Ok") =>
    /\ ~HasKey(setupFile)
    /\ setupRet.op = "save" => vault = Some(setupRet.arg[1].api_key)
    /\ (setupRet.op = "load" /\ setupRet.value # None) =>
         setupRet.value[1].api_key = KeyOrDefault(vault)

\* A payload with a key has been saved: the key is in the vault, not the file.
C3_Witness ==
  /\ setupRet.op = "save" /\ setupRet.status = "Ok"
  /\ setupRet.arg[1].api_key = "k1"
  /\ vault = Some("k1")
  /\ setupFile.exists /\ setupFile.complete /\ setupFile.apiKey = JsonAbsent

\* C4: a load_setup that returns Ok on a file with a non-empty legacy apiKey k
\* has stored k in the vault, has rewritten the file without the apiKey member
\* and with the other members unchanged, and returns a payload whose api_key
\* is k; a load_setup that follows it and returns Ok returns the same payload
\* and changes neither the file nor the vault.
C4_LegacyMigration ==
  [][/\ (IsLoadSetup /\ setupRet'.status = "Ok" /\ HasKey(setupFile)) =>
          /\ vault' = Some(setupFile.apiKey.s)
          /\ setupFile' = [setupFile EXCEPT !.apiKey = JsonAbsent]
          /\ setupRet'.value =
               Some([provider |-> setupFile.provider,
                     api_key |-> setupFile.apiKey.s,
                     actions |-> setupFile.actions,
                     default_action_id |-> setupFile.defaultActionId,
                     setup_completed_at |-> setupFile.setupCompletedAt])
     /\ (/\ IsLoadSetup /\ setupRet'.status = "Ok"
         /\ setupRet.op = "load" /\ setupRet.status = "Ok" /\ setupRet.migrated) =>
          /\ setupRet'.value = setupRet.value
          /\ setupFile' = setupFile
          /\ vault' = vault]_vars

\* A migrating load_setup has been followed by a second load_setup.
C4_Witness ==
  /\ setupPrev.op = "load" /\ setupPrev.status = "Ok" /\ setupPrev.migrated
  /\ setupRet.op = "load" /\ setupRet.status = "Ok" /\ ~setupRet.migrated
  /\ setupRet.value = setupPrev.value
  /\ setupRet.value[1].api_key = "k1"
  /\ vault = Some("k1")
  /\ setupFile.apiKey = JsonAbsent

----------------------------------------------------------------------------
(* Claims about the global shortcut (SpecShortcut) *)

\* C6: the application holds at most one shortcut registered with the global
\* shortcut manager, and after a register_global_shortcut that returned Ok
\* only the trimmed shortcut is registered.
C6_AtMostOneShortcut ==
  /\ Cardinality(osShortcuts) <= 1
  /\ (scRet.op = "register" /\ scRet.status = "Ok") => osShortcuts = {Trim(scRet.arg)}

\* C9: a register_global_shortcut that returns Err changes neither the OS
\* registration nor active_shortcut, and active_shortcut = Some(s) exactly
\* when s is the shortcut registered with the OS.
C9_ErrChangesNothing ==
  [][/\ (scRet'.op = "register" /\ scRet'.status = "Err") =>
          UNCHANGED <<active_shortcut, osShortcuts>>
     /\ \A s \in {Trim(i) : i \in ShortcutInputs} :
          (active_shortcut' = Some(s)) <=> (s \in osShortcuts')]_vars

----------------------------------------------------------------------------
(* Claims about the capture threads (SpecCapture) *)

\* C7: once every capture thread spawned by a hotkey press has finished, the
\* clipboard holds the text it held before the first press.
C7_ClipboardRestored ==
  (/\ \E t \in CaptureThreads : cpc[t] = "done"
   /\ \A t \in CaptureThreads : cpc[t] \in {"idle", "done"}
   /\ \A t \in CaptureThreads : ~pending[t]) =>
    clipboard = clip0

----------------------------------------------------------------------------
(* Claims about concurrent appends (SpecAppend) *)

AllReturnedOk == \A t \in AppendThreads : apc[t] = "done" /\ aret[t] = "Ok"

\* The number of entries the log held when the calls started.
LenBefore == Len(order) - NumThreads

\* C8: when concurrent append_execution_log calls have all returned Ok, every
\* appended entry was pushed exactly once, the in-memory log is the old log
\* followed by the entries in the order of the pushes, cut to its last 500,
\* and execution-logs.json equals the in-memory log.
C8_AppendsSerialised ==
  AllReturnedOk =>
    /\ LenBefore >= 0
    /\ SubSeq(order, 1, LenBefore) = OldLogs(LenBefore)
    /\ \A t \in AppendThreads :
         Cardinality({i \in (LenBefore + 1)..Len(order) : order[i] = EntryOf(t)}) = 1
    /\ logs = LastN(order, Min(MAX_LOGS, Len(order)))
    /\ logsFile = LogsToJson(logs)

\* Two appends onto a full log have both returned Ok.
C8_Witness ==
  /\ AllReturnedOk
  /\ Len(order) = MAX_LOGS + NumThreads
  /\ logs[MAX_LOGS] = EntryOf(1)
  /\ logsFile = LogsToJson(logs)

====
